---------------------------- MODULE Spec2Model ----------------------------
(***************************************************************************)
(* Station-position resolution and shot geometry of the cave-ice survey    *)
(* converter (ice_process.py).                                             *)
(*                                                                         *)
(* Numbers.  The source computes in binary floating point.  Here a length  *)
(* read from a worksheet is an integer number of metres, a coordinate is   *)
(* an integer number of micrometres (1e-6 m) and sin/cos of an angle are   *)
(* integers in thousandths, tabulated for the multiples of 30 degrees.     *)
(* A product dist * cos * sin is then exactly a number of micrometres, so  *)
(* the arithmetic of Point.shot is carried out without rounding; the       *)
(* floating-point error of the source ("within floating tolerance" in the  *)
(* specification) is the one thing this abstracts.                         *)
(*                                                                         *)
(* Station names are opaque dictionary keys in the source; they are the    *)
(* integers 0, 1, 2, ... here.                                             *)
(***************************************************************************)
EXTENDS Integers, Sequences, FiniteSets, TLC

VARIABLES
    sheet,      \* the rows of the tie-in worksheet (ExcelWorksheetReader(sheet))
    stations,   \* excel_tiein: dict station name -> Point or None
    passes,     \* excel_tiein: number of completed sweeps
    pc,         \* excel_tiein: position in the function
    i,          \* excel_tiein: index of the next row of the running for loop
    exc,        \* excel_tiein: what the raised exception reports, None before
    g_pc,       \* geometry run: position
    g_self,     \* geometry run: the point shot from
    g_args,     \* geometry run: the shot (dist, azm, inc)
    g_fwd,      \* geometry run: self.shot(dist, azm, inc)
    g_back,     \* geometry run: the reversed sight taken from g_fwd
    sv_rows,    \* survey run: the rows of one survey worksheet
    sv_cfg,     \* survey run: survey_id and origin name (ice2survey), origin Point (excel_survey)
    dat,        \* survey run: ice2survey's loop position, enumerate index and survey.shots
    gen1,       \* survey run: a first iteration of excel_survey(sheet, origin)
    gen2,       \* survey run: a second iteration of excel_survey(sheet, origin)
    book,       \* process: the worksheets of the workbook
    kwargs,     \* process: the keyword arguments of each of two conversions
    proc,       \* process: position, fixed_stations and outputs of each conversion
    shp,        \* ice_shp_filter: the items of reader.shapeRecords()
    flt         \* ice_shp_filter: position, enumerate index and the writer's shapes and records

vars == <<sheet, stations, passes, pc, i, exc, g_pc, g_self, g_args, g_fwd, g_back,
          sv_rows, sv_cfg, dat, gen1, gen2, book, kwargs, proc,
          shp, flt>>

tiein_vars == <<sheet, stations, passes, pc, i, exc>>
geom_vars == <<g_pc, g_self, g_args, g_fwd, g_back>>
survey_vars == <<sv_rows, sv_cfg, dat, gen1, gen2>>
proc_vars == <<book, kwargs, proc>>
filter_vars == <<shp, flt>>

(***************************************************************************)
(* Bounds of the checked instances.                                        *)
(***************************************************************************)
MaxChain == 6    \* longest chain-shaped tie-in list (rows)
MaxSmall == 2    \* longest freely chosen tie-in list (rows)
MaxDist == 10    \* longest shot of the geometry runs (metres)
MaxRows == 2     \* longest survey worksheet (rows)
MaxSheets == 3   \* most worksheets of a workbook
MaxItems == 3    \* most records of a shapefile

(***************************************************************************)
(* Program constant: the pass cap of excel_tiein.                          *)
(***************************************************************************)
max_passes == 5

(***************************************************************************)
(* Values.                                                                 *)
(***************************************************************************)
None == [isNone |-> TRUE]

NoName == "<None>"

Point(x, y, z, name) == [x |-> x, y |-> y, z |-> z, name |-> name]

\* math.sin(math.radians(a)) in thousandths, a a multiple of 30 degrees
SinT(a) ==
    LET r == a % 360
    IN  CASE r = 0 -> 0
          [] r = 30 -> 500
          [] r = 60 -> 866
          [] r = 90 -> 1000
          [] r = 120 -> 866
          [] r = 150 -> 500
          [] r = 180 -> 0
          [] r = 210 -> -500
          [] r = 240 -> -866
          [] r = 270 -> -1000
          [] r = 300 -> -866
          [] r = 330 -> -500

\* math.cos(math.radians(a)) in thousandths
CosT(a) == SinT(a + 90)

\* plain_shot with the azimuth taken as a mathematical angle (from east,
\* counter-clockwise) instead of a compass bearing
plain_shot_math_angle(self, dist, azm, inc) ==
    LET hd == dist * CosT(inc)
        x2 == hd * CosT(azm)
        y2 == hd * SinT(azm)
        z2 == dist * SinT(inc) * 1000
    IN  Point(self.x + x2, self.y + y2, self.z + z2, NoName)

\* the first five statements of Point.shot: the plain polar shot
plain_shot(self, dist, azm, inc) ==
    LET hd == dist * CosT(inc)
        x2 == hd * SinT(azm)
        y2 == hd * CosT(azm)
        z2 == dist * SinT(inc) * 1000
    IN  Point(self.x + x2, self.y + y2, self.z + z2, NoName)

\* Point.shot(self, dist, azm, inc, down, back, name); a false down, back or
\* name (0 or NoName here) leaves the corresponding step out
shot(self, dist, azm, inc, down, back, name) ==
    LET p0 == plain_shot(self, dist, azm, inc)
        p1 == IF down # 0 THEN plain_shot(p0, down, 0, -90) ELSE p0
        p2 == IF back # 0 THEN plain_shot(p1, back, azm, 0) ELSE p1
    IN  IF name # NoName THEN [p2 EXCEPT !.name = name] ELSE p2


(***************************************************************************)
(* Python dict and truth-value helpers.                                    *)
(***************************************************************************)
EmptyDict == [k \in {} |-> None]

\* d.get(k, None)
dict_get(d, k) == IF k \in DOMAIN d THEN d[k] ELSE None

\* d[k] = v
dict_set(d, k, v) == [x \in DOMAIN d \cup {k} |-> IF x = k THEN v ELSE d[x]]

\* bool(p) of a station-table value: None is false; a Point defines neither
\* __nonzero__ nor __len__, so every Point is true
truthy(p) == p # None

(***************************************************************************)
(* Tie-in worksheets.  A row is the dict ExcelWorksheetReader yields:       *)
(* From, To, Dist_m, Azm, Inc, and Fixed, which is None when the row's      *)
(* 'Alt m' cell is missing or blank and otherwise carries the row's         *)
(* 'UTM East', 'UTM North' and 'Alt m' cells.                               *)
(***************************************************************************)
Row(from_, to, dist, azm, inc, fixed) ==
    [From |-> from_, To |-> to, Dist_m |-> dist, Azm |-> azm, Inc |-> inc,
     Fixed |-> fixed]

Cells(east, north, alt) == [UTM_East |-> east, UTM_North |-> north, Alt_m |-> alt]

\* Chain-shaped lists: link k joins stations k-1 and k, sighted in either
\* direction; one row carries a fixed coordinate for its To station; the
\* rows are listed in chain order or in the opposite order.
ChainLink(k, forward, fixed) ==
    LET dist == k
        azm == (k * 90) % 360
        inc == ((k % 3) - 1) * 30
        fx == IF fixed THEN Cells(0, 0, 0) ELSE None
    IN  IF forward THEN Row(k - 1, k, dist, azm, inc, fx)
                   ELSE Row(k, k - 1, dist, azm, inc, fx)

ChainSheet(n, dirs, a, rev) ==
    [j \in 1..n |->
        LET k == IF rev THEN n + 1 - j ELSE j
        IN  ChainLink(k, dirs[k], k = a)]

ChainSheets ==
    UNION { { ChainSheet(n, dirs, a, rev) :
                dirs \in [1..n -> BOOLEAN], a \in 1..n, rev \in BOOLEAN }
            : n \in 1..MaxChain }

\* Freely chosen short lists.  Names are numbered in order of first
\* appearance (the resolver only compares names for equality); each row
\* takes one of two shots and either no fixed coordinate or one that differs
\* from row to row.
Canonical(nm, n) ==
    \A p \in 1..(2 * n) :
        \/ nm[p] = 0
        \/ \E q \in 1..(p - 1) : nm[q] = nm[p] - 1

SmallShots == { <<5, 90, 0>>, <<2, 0, 30>> }

SmallFixed(j) == { None, Cells(5000000 * j, 0, 0) }

SmallSheet(n, nm, opt) ==
    [j \in 1..n |->
        Row(nm[2 * j - 1], nm[2 * j], opt[j][1][1], opt[j][1][2], opt[j][1][3],
            opt[j][2])]

SmallSheets ==
    UNION { { SmallSheet(n, nm, opt) :
                nm \in { f \in [1..(2 * n) -> 0..(2 * n - 1)] : Canonical(f, n) },
                opt \in { o \in [1..n -> SmallShots \X UNION { SmallFixed(j) : j \in 1..n }] :
                            \A j \in 1..n : o[j][2] \in SmallFixed(j) } }
            : n \in 0..MaxSmall }

\* The chain A0 -> B0 -> C0 of two 5 m shots at azimuth 90, A0 (station 0)
\* fixed at (0,0,0) by the row that sights it from a benchmark (station 3);
\* B0 is station 1, C0 station 2.
ExampleChain ==
    << Row(3, 0, 2, 0, 30, Cells(0, 0, 0)),
       Row(0, 1, 5, 90, 0, None),
       Row(1, 2, 5, 90, 0, None) >>

TieInSheets == ChainSheets \cup SmallSheets \cup {ExampleChain}

(***************************************************************************)
(* excel_tiein, statement by statement.                                    *)
(***************************************************************************)
\* row.get('Alt m', None) not in (None, '')
has_alt(row) == row.Fixed # None

\* init_row with the From line dropped: only To is registered
init_row_no_from(st, row) ==
    IF has_alt(row)
    THEN dict_set(st, row.To,
                  Point(row.Fixed.UTM_East, row.Fixed.UTM_North,
                        row.Fixed.Alt_m, NoName))
    ELSE dict_set(st, row.To, dict_get(st, row.To))

\* init_row with an unknown From defaulting to the origin instead of None
init_row_default_origin(st, row) ==
    LET st1 == dict_set(st, row.From,
                        IF row.From \in DOMAIN st THEN st[row.From]
                        ELSE Point(0, 0, 0, NoName))
    IN  IF has_alt(row)
        THEN dict_set(st1, row.To,
                      Point(row.Fixed.UTM_East, row.Fixed.UTM_North,
                            row.Fixed.Alt_m, NoName))
        ELSE dict_set(st1, row.To, dict_get(st1, row.To))

\* init_row with a plain row resetting its To to None instead of keeping it
init_row_reset_to(st, row) ==
    LET st1 == dict_set(st, row.From, dict_get(st, row.From))
    IN  IF has_alt(row)
        THEN dict_set(st1, row.To,
                      Point(row.Fixed.UTM_East, row.Fixed.UTM_North,
                            row.Fixed.Alt_m, NoName))
        ELSE dict_set(st1, row.To, None)

\* the body of the first loop: register From and To, fix To if the row says so
init_row(st, row) ==
    LET st1 == dict_set(st, row.From, dict_get(st, row.From))
    IN  IF has_alt(row)
        THEN dict_set(st1, row.To,
                      Point(row.Fixed.UTM_East, row.Fixed.UTM_North,
                            row.Fixed.Alt_m, NoName))
        ELSE dict_set(st1, row.To, dict_get(st1, row.To))

\* the loop test taken over all values instead of any
none_in_all_values(st) == DOMAIN st # {} /\ \A s \in DOMAIN st : st[s] = None

\* None in stations.values()
none_in_values(st) == \E s \in DOMAIN st : st[s] = None

\* the reversed azimuth reduced modulo 180 instead of 360
back_azm_mod180(azm) == (azm + 180) % 180

\* the reversed inclination without its sign change
back_inc_same(inc) == inc

\* the arguments of the reversed sight
back_azm(azm) == (azm + 180) % 360

back_inc(inc) == -1 * inc

\* sweep_row shooting forward whenever From is resolved, To resolved or not
sweep_row_overwrite(st, row) ==
    LET from_p == dict_get(st, row.From)
        to_p == dict_get(st, row.To)
    IN  IF truthy(from_p)
        THEN dict_set(st, row.To,
                      shot(from_p, row.Dist_m, row.Azm, row.Inc, 0, 0, NoName))
        ELSE IF truthy(to_p)
        THEN dict_set(st, row.From,
                      shot(to_p, row.Dist_m, back_azm(row.Azm), back_inc(row.Inc),
                           0, 0, NoName))
        ELSE st

\* sweep_row without the reversed sight: only From -> To is ever shot
sweep_row_forward_only(st, row) ==
    LET from_p == dict_get(st, row.From)
        to_p == dict_get(st, row.To)
    IN  IF truthy(from_p) /\ ~truthy(to_p)
        THEN dict_set(st, row.To,
                      shot(from_p, row.Dist_m, row.Azm, row.Inc, 0, 0, NoName))
        ELSE st

\* the body of the for loop of a pass
sweep_row(st, row) ==
    LET from_p == dict_get(st, row.From)
        to_p == dict_get(st, row.To)
    IN  IF truthy(from_p) /\ truthy(to_p) THEN st
        ELSE IF truthy(from_p) /\ ~truthy(to_p)
        THEN dict_set(st, row.To,
                      shot(from_p, row.Dist_m, row.Azm, row.Inc, 0, 0, NoName))
        ELSE IF truthy(to_p) /\ ~truthy(from_p)
        THEN dict_set(st, row.From,
                      shot(to_p, row.Dist_m, back_azm(row.Azm), back_inc(row.Inc),
                           0, 0, NoName))
        ELSE st

\* the cap tested with >= instead of >
too_many_passes_ge(p) == p >= max_passes

\* passes > 5
too_many_passes(p) == p > max_passes

\* the exception's message: '... after %d passes!  %s' % (passes, stations)
Unable(p, st) == [passes |-> p, stations |-> st]

tiein_init_row ==
    /\ pc = "init"
    /\ i <= Len(sheet)
    /\ stations' = init_row(stations, sheet[i])
    /\ i' = i + 1
    /\ UNCHANGED <<sheet, passes, pc, exc>>
    /\ UNCHANGED <<geom_vars, survey_vars, proc_vars, filter_vars>>

tiein_init_end ==
    /\ pc = "init"
    /\ i > Len(sheet)
    /\ passes' = 0
    /\ pc' = "while"
    /\ i' = 0
    /\ UNCHANGED <<sheet, stations, exc>>
    /\ UNCHANGED <<geom_vars, survey_vars, proc_vars, filter_vars>>

tiein_while ==
    /\ pc = "while"
    /\ IF none_in_values(stations)
       THEN pc' = "for" /\ i' = 1
       ELSE pc' = "return" /\ i' = 0
    /\ UNCHANGED <<sheet, stations, passes, exc>>
    /\ UNCHANGED <<geom_vars, survey_vars, proc_vars, filter_vars>>

tiein_for_row ==
    /\ pc = "for"
    /\ i <= Len(sheet)
    /\ stations' = sweep_row(stations, sheet[i])
    /\ i' = i + 1
    /\ UNCHANGED <<sheet, passes, pc, exc>>
    /\ UNCHANGED <<geom_vars, survey_vars, proc_vars, filter_vars>>

\* the end of a pass without the increment of passes
tiein_for_end_no_count ==
    /\ pc = "for"
    /\ i > Len(sheet)
    /\ i' = 0
    /\ IF too_many_passes(passes)
       THEN pc' = "raise" /\ exc' = Unable(passes, stations)
       ELSE pc' = "while" /\ exc' = exc
    /\ UNCHANGED <<sheet, stations, passes>>
    /\ UNCHANGED <<geom_vars, survey_vars, proc_vars, filter_vars>>

tiein_for_end ==
    /\ pc = "for"
    /\ i > Len(sheet)
    /\ passes' = passes + 1
    /\ i' = 0
    /\ IF too_many_passes(passes + 1)
       THEN pc' = "raise" /\ exc' = Unable(passes + 1, stations)
       ELSE pc' = "while" /\ exc' = exc
    /\ UNCHANGED <<sheet, stations>>
    /\ UNCHANGED <<geom_vars, survey_vars, proc_vars, filter_vars>>

GeomIdle ==
    /\ g_pc = "idle"
    /\ g_self = None
    /\ g_args = <<>>
    /\ g_fwd = None
    /\ g_back = None

SurveyIdle ==
    /\ sv_rows = <<>>
    /\ sv_cfg = None
    /\ dat = None
    /\ gen1 = None
    /\ gen2 = None

ProcIdle ==
    /\ book = <<>>
    /\ kwargs = None
    /\ proc = None

FilterIdle ==
    /\ shp = <<>>
    /\ flt = None

Init ==
    /\ sheet \in TieInSheets
    /\ stations = EmptyDict
    /\ passes = 0
    /\ pc = "init"
    /\ i = 1
    /\ exc = None
    /\ GeomIdle
    /\ SurveyIdle
    /\ ProcIdle
    /\ FilterIdle

Next ==
    \/ tiein_init_row
    \/ tiein_init_end
    \/ tiein_while
    \/ tiein_for_row
    \/ tiein_for_end

Spec == Init /\ [][Next]_vars

\* The function runs to its end: no statement of excel_tiein blocks, so a
\* step that can be taken is eventually taken.
FairSpec == Spec /\ WF_vars(Next)

(***************************************************************************)
(* Geometry runs: one shot from a point, then a pass of the resolver over  *)
(* the single entry 0 -> 1 with that shot, station 1 resolved at the end   *)
(* of the shot and station 0 unresolved (the reversed sight).              *)
(***************************************************************************)
Azimuths == { 30 * k : k \in 0..11 }

Inclinations == { 30 * k : k \in -3..3 }

Origins ==
    { Point(x, y, z, NoName) :
        x \in {0, 5000000}, y \in {0, -1000000}, z \in {0, 2000000} }

TieInIdle ==
    /\ sheet = <<>>
    /\ stations = EmptyDict
    /\ passes = 0
    /\ pc = "idle"
    /\ i = 0
    /\ exc = None

geom_shot ==
    /\ g_pc = "start"
    /\ g_fwd' = shot(g_self, g_args[1], g_args[2], g_args[3], 0, 0, NoName)
    /\ g_pc' = "shot"
    /\ UNCHANGED <<g_self, g_args, g_back>>
    /\ UNCHANGED <<tiein_vars, survey_vars, proc_vars, filter_vars>>

geom_back ==
    /\ g_pc = "shot"
    /\ g_back' = sweep_row([s \in {0, 1} |-> IF s = 1 THEN g_fwd ELSE None],
                            Row(0, 1, g_args[1], g_args[2], g_args[3], None))[0]
    /\ g_pc' = "back"
    /\ UNCHANGED <<g_self, g_args, g_fwd>>
    /\ UNCHANGED <<tiein_vars, survey_vars, proc_vars, filter_vars>>

GeomInit ==
    /\ TieInIdle
    /\ SurveyIdle
    /\ ProcIdle
    /\ FilterIdle
    /\ g_pc = "start"
    /\ g_self \in Origins
    /\ g_args \in (0..MaxDist) \X Azimuths \X Inclinations
    /\ g_fwd = None
    /\ g_back = None

GeomNext ==
    \/ geom_shot
    \/ geom_back

GeomSpec == GeomInit /\ [][GeomNext]_vars


(***************************************************************************)
(* Survey worksheets.  A cell is Blank (xlrd's '' of an empty cell) or     *)
(* Num(v), a number.  A row is the dict ExcelWorksheetReader yields:       *)
(* Point, Azm, Dist_m, Inc, Down_m, Back_m; Azm and Inc are filled.        *)
(***************************************************************************)
Blank == <<>>

Num(v) == <<v>>

\* bool(cell): '' and 0.0 are false
cell_truthy(c) == c # Blank /\ c[1] # 0

\* float(cell) of a filled cell
cell_float(c) == c[1]

SurveyRow(point, azm, dist, inc, down, back) ==
    [Point |-> point, Azm |-> azm, Dist_m |-> dist, Inc |-> inc,
     Down_m |-> down, Back_m |-> back]

\* the rows a worksheet may hold at position j
SurveyRows(j) ==
    { SurveyRow(point, (60 * j) % 360, dist, ((j % 3) - 1) * 30, down, back) :
        point \in {Blank, Num(2)},
        dist \in {Blank, Num(0), Num(j + 1)},
        down \in {Blank, Num(1)},
        back \in {Blank, Num(2)} }

SurveySheets ==
    UNION { { r \in [1..n -> UNION { SurveyRows(j) : j \in 1..n }] :
                \A j \in 1..n : r[j] \in SurveyRows(j) }
            : n \in 0..MaxRows }

\* survey_id and origin of ice2survey, origin Point of excel_survey
SurveyConfigs ==
    { [id |-> "A", origin_name |-> "", origin |-> Point(0, 0, 0, NoName)],
      [id |-> "B", origin_name |-> "T0",
       origin |-> Point(5000000, -1000000, 2000000, NoName)],
      [id |-> "s", origin_name |-> "", origin |-> Point(0, 0, 0, NoName)] }

(***************************************************************************)
(* ice2dat.ice2survey.  A shot carries the arguments of compass.Shot and,  *)
(* as annotation, the enumerate index of its row and the statement that    *)
(* added it (main, down or back).  Lengths in feet are counted in 1/381    *)
(* ft, in which a metre is exactly 1250.                                   *)
(***************************************************************************)
\* davies.survey_math.m2ft
m2ft(m) == m * 1250

\* str.upper() on the survey ids in use
Upper(str) == CASE str = "s" -> "S" [] OTHER -> str

\* str.startswith(prefix)
startswith(str, prefix) ==
    Len(str) >= Len(prefix) /\ SubSeq(str, 1, Len(prefix)) = prefix

\* '%02d' % n, n >= 0
fmt_02d(n) == IF n < 10 THEN "0" \o ToString(n) ELSE ToString(n)

\* survey_id.upper().startswith('S')
reserved_id(survey_id) == startswith(Upper(survey_id), "S")

\* origin = survey_id + '0' if not origin else origin
dat_origin(cfg) == IF cfg.origin_name = "" THEN cfg.id \o "0" ELSE cfg.origin_name

\* int(row['Point'] or i+1)
point_number(row, idx) == IF cell_truthy(row.Point) THEN cell_float(row.Point) ELSE idx + 1

\* '%s%02d' % (survey_id, point)
base_to(survey_id, point) == survey_id \o fmt_02d(point)

\* TO of the main shot, never marked
main_to_plain(base, has_down, has_back) == base

\* TO of the main shot
main_to(base, has_down, has_back) ==
    IF has_down \/ has_back THEN base ELSE "S_" \o base

\* TO of the down shot
down_to_always_surface(base, has_back) == "S_d" \o base

down_to(base, has_back) ==
    IF ~has_back THEN "S_d" \o base ELSE "d" \o base

\* FROM of the back shot
back_from_primary(to, down_to_, has_down) == to

back_from(to, down_to_, has_down) == IF has_down THEN down_to_ ELSE to

\* TO of the back shot
back_to(base) == "S_b" \o base

Shot(idx, part, from_, to, bearing, inc, length) ==
    [row |-> idx, part |-> part, FROM |-> from_, TO |-> to, BEARING |-> bearing,
     INC |-> inc, LENGTH |-> length]

\* the order of the three survey.add_shot statements of one iteration
dat_parts_back_first(main, down, back) == main \o back \o down

dat_parts(main, down, back) == main \o down \o back

\* the shots one iteration of ice2survey's loop adds for (idx, row)
dat_row(idx, row, survey_id, origin) ==
    IF ~cell_truthy(row.Dist_m) THEN <<>>
    ELSE
      LET point == point_number(row, idx)
          azm == row.Azm
          dist == m2ft(cell_float(row.Dist_m))
          inc == row.Inc
          base == base_to(survey_id, point)
          has_down == cell_truthy(row.Down_m)
          has_back == cell_truthy(row.Back_m)
          to == main_to(base, has_down, has_back)
          dto == down_to(base, has_back)
          main == <<Shot(idx, "main", origin, to, azm, inc, dist)>>
          down == IF has_down
                  THEN <<Shot(idx, "down", to, dto, azm, -90,
                              m2ft(cell_float(row.Down_m)))>>
                  ELSE <<>>
          back == IF has_back
                  THEN <<Shot(idx, "back", back_from(to, dto, has_down), back_to(base),
                              azm, 0, m2ft(cell_float(row.Back_m)))>>
                  ELSE <<>>
      IN  dat_parts(main, down, back)

\* entry of ice2survey: the reserved-identifier test
dat_enter ==
    /\ dat.pc = "enter"
    /\ dat' = [dat EXCEPT !.pc = IF reserved_id(sv_cfg.id) THEN "raise" ELSE "loop"]
    /\ UNCHANGED <<sv_rows, sv_cfg, gen1, gen2>>
    /\ UNCHANGED <<tiein_vars, geom_vars, proc_vars, filter_vars>>

\* one iteration of the loop over enumerate(rows)
dat_loop ==
    /\ dat.pc = "loop"
    /\ dat.i < Len(sv_rows)
    /\ dat' = [dat EXCEPT
                 !.i = @ + 1,
                 !.shots = @ \o dat_row(dat.i, sv_rows[dat.i + 1], sv_cfg.id,
                                        dat_origin(sv_cfg))]
    /\ UNCHANGED <<sv_rows, sv_cfg, gen1, gen2>>
    /\ UNCHANGED <<tiein_vars, geom_vars, proc_vars, filter_vars>>

\* return survey
dat_return ==
    /\ dat.pc = "loop"
    /\ dat.i >= Len(sv_rows)
    /\ dat' = [dat EXCEPT !.pc = "return"]
    /\ UNCHANGED <<sv_rows, sv_cfg, gen1, gen2>>
    /\ UNCHANGED <<tiein_vars, geom_vars, proc_vars, filter_vars>>

(***************************************************************************)
(* ice_process.excel_survey: a generator over the rows of the worksheet.   *)
(* A yielded point carries, as annotation, the index of its row.           *)
(***************************************************************************)
\* the value passed for down / back: the cell's number, or '' (false)
cell_or_zero(c) == IF c = Blank THEN 0 ELSE cell_float(c)

\* the name passed to shot: the Point cell's value, '' (false) when blank
cell_name(c) == IF cell_truthy(c) THEN ToString(cell_float(c)) ELSE NoName

\* the point one row yields
survey_point(row, origin) ==
    shot(origin, cell_float(row.Dist_m), row.Azm, row.Inc,
         cell_or_zero(row.Down_m), cell_or_zero(row.Back_m), cell_name(row.Point))

\* if not row.get('Dist m', None): continue
skip_row(row) == ~cell_truthy(row.Dist_m)

\* the index of the first row at or after c that is not skipped, 0 if none
RECURSIVE next_yield(_, _)
next_yield(rows, c) ==
    IF c > Len(rows) THEN 0
    ELSE IF ~skip_row(rows[c]) THEN c
    ELSE next_yield(rows, c + 1)

\* an iteration that takes up where another one stands
reader_start_resume(other) == other

\* the row ExcelWorksheetReader.__iter__ starts at: range(1, nrows) is built
\* anew for every iteration, whatever another iteration's position
reader_start(other) == 1

\* next() on a generator: run to the next yield or to the end
gen_next(g) ==
    LET j == next_yield(sv_rows, g.i)
    IN  IF j = 0
        THEN [g EXCEPT !.pc = "done", !.i = Len(sv_rows) + 1]
        ELSE [g EXCEPT !.i = j + 1,
                       !.out = Append(@, [row |-> j,
                                          point |-> survey_point(sv_rows[j],
                                                                 sv_cfg.origin)])]

gen1_next ==
    /\ dat.pc \in {"return", "raise"}
    /\ gen1.pc = "run"
    /\ gen1' = gen_next(gen1)
    /\ UNCHANGED <<sv_rows, sv_cfg, dat, gen2>>
    /\ UNCHANGED <<tiein_vars, geom_vars, proc_vars, filter_vars>>

\* a second iteration of the same reader is begun at any moment of the first
gen2_start ==
    /\ dat.pc \in {"return", "raise"}
    /\ gen2.pc = "new"
    /\ gen2' = [gen2 EXCEPT !.pc = "run", !.i = reader_start(gen1.i)]
    /\ UNCHANGED <<sv_rows, sv_cfg, dat, gen1>>
    /\ UNCHANGED <<tiein_vars, geom_vars, proc_vars, filter_vars>>

gen2_next ==
    /\ gen2.pc = "run"
    /\ gen2' = gen_next(gen2)
    /\ UNCHANGED <<sv_rows, sv_cfg, dat, gen1>>
    /\ UNCHANGED <<tiein_vars, geom_vars, proc_vars, filter_vars>>

SurveyInit ==
    /\ TieInIdle
    /\ GeomIdle
    /\ ProcIdle
    /\ FilterIdle
    /\ sv_rows \in SurveySheets
    /\ sv_cfg \in SurveyConfigs
    /\ dat = [pc |-> "enter", i |-> 0, shots |-> <<>>]
    /\ gen1 = [pc |-> "run", i |-> reader_start(1), out |-> <<>>]
    /\ gen2 = [pc |-> "new", i |-> 0, out |-> <<>>]

SurveyNext ==
    \/ dat_enter
    \/ dat_loop
    \/ dat_return
    \/ gen1_next
    \/ gen2_start
    \/ gen2_next

SurveySpec == SurveyInit /\ [][SurveyNext]_vars

(***************************************************************************)
(* Worksheet names.  Python's str methods, character by character.         *)
(***************************************************************************)
\* c.lower() of one character
lower_char(c) ==
    CASE c = "A" -> "a" [] c = "B" -> "b" [] c = "C" -> "c" [] c = "D" -> "d"
      [] c = "E" -> "e" [] c = "F" -> "f" [] c = "G" -> "g" [] c = "H" -> "h"
      [] c = "I" -> "i" [] c = "J" -> "j" [] c = "K" -> "k" [] c = "L" -> "l"
      [] c = "M" -> "m" [] c = "N" -> "n" [] c = "O" -> "o" [] c = "P" -> "p"
      [] c = "Q" -> "q" [] c = "R" -> "r" [] c = "S" -> "s" [] c = "T" -> "t"
      [] c = "U" -> "u" [] c = "V" -> "v" [] c = "W" -> "w" [] c = "X" -> "x"
      [] c = "Y" -> "y" [] c = "Z" -> "z" [] OTHER -> c

\* str.lower()
RECURSIVE lower(_)
lower(str) ==
    IF Len(str) = 0 THEN ""
    ELSE lower_char(SubSeq(str, 1, 1)) \o lower(SubSeq(str, 2, Len(str)))

\* str.replace('-', '')
RECURSIVE replace_hyphens(_)
replace_hyphens(str) ==
    IF Len(str) = 0 THEN ""
    ELSE (IF SubSeq(str, 1, 1) = "-" THEN "" ELSE SubSeq(str, 1, 1))
         \o replace_hyphens(SubSeq(str, 2, Len(str)))

\* sub in str
contains(str, sub) ==
    \E k \in 1..(Len(str) - Len(sub) + 1) : SubSeq(str, k, k + Len(sub) - 1) = sub

\* str.split()[0] of a name that starts with a word
RECURSIVE first_word(_)
first_word(str) ==
    IF Len(str) = 0 \/ SubSeq(str, 1, 1) = " " THEN ""
    ELSE SubSeq(str, 1, 1) \o first_word(SubSeq(str, 2, Len(str)))

is_tiein_survey(sh) == lower(replace_hyphens(sh.name)) = "tiein"

is_transect_survey(sh) == contains(lower(sh.name), "transect")

is_perimeter_survey(sh) == ~is_transect_survey(sh) /\ ~is_tiein_survey(sh)

\* the index of the first tie-in sheet of the workbook, 0 where the code
\* raises 'No tie-in survey sheet found!'
find_tiein_sheet(workbook) ==
    IF \E k \in 1..Len(workbook) : is_tiein_survey(workbook[k])
    THEN CHOOSE k \in 1..Len(workbook) :
             /\ is_tiein_survey(workbook[k])
             /\ \A m \in 1..(k - 1) : ~is_tiein_survey(workbook[m])
    ELSE 0

\* filter(lambda s: not is_tiein_survey(s), workbook.sheets())
find_survey_sheets(workbook) == SelectSeq(workbook, LAMBDA sh : ~is_tiein_survey(sh))

tripod_station_name(sh) == first_word(sh.name) \o "0"

(***************************************************************************)
(* excel_tiein and excel_survey as called by process: run from entry to    *)
(* return or raise.                                                        *)
(***************************************************************************)
\* the first loop of excel_tiein over rows j..
RECURSIVE tiein_init(_, _, _)
tiein_init(st, rows, j) ==
    IF j > Len(rows) THEN st ELSE tiein_init(init_row(st, rows[j]), rows, j + 1)

\* one pass: the for loop over rows j..
RECURSIVE tiein_pass(_, _, _)
tiein_pass(st, rows, j) ==
    IF j > Len(rows) THEN st ELSE tiein_pass(sweep_row(st, rows[j]), rows, j + 1)

\* the while loop, entered with passes = p
RECURSIVE tiein_passes(_, _, _)
tiein_passes(st, rows, p) ==
    IF ~none_in_values(st) THEN [raised |-> FALSE, stations |-> st, exc |-> None]
    ELSE LET st1 == tiein_pass(st, rows, 1)
         IN  IF too_many_passes(p + 1)
             THEN [raised |-> TRUE, stations |-> st1, exc |-> Unable(p + 1, st1)]
             ELSE tiein_passes(st1, rows, p + 1)

excel_tiein(rows) == tiein_passes(tiein_init(EmptyDict, rows, 1), rows, 0)

\* self after a shot that names self instead of the new point
shot_self_named(self, dist, azm, inc, down, back, name) ==
    IF name # NoName THEN [self EXCEPT !.name = name] ELSE self

\* self after self.shot(...): the method assigns no attribute of self
shot_self(self, dist, azm, inc, down, back, name) == self

\* list(excel_survey(rows, origin)) from row j on, and origin after it
RECURSIVE survey_from(_, _, _)
survey_from(rows, origin, j) ==
    IF j > Len(rows) THEN [points |-> <<>>, origin |-> origin]
    ELSE IF skip_row(rows[j]) THEN survey_from(rows, origin, j + 1)
    ELSE LET row == rows[j]
             p == survey_point(row, origin)
             o1 == shot_self(origin, cell_float(row.Dist_m), row.Azm, row.Inc,
                             cell_or_zero(row.Down_m), cell_or_zero(row.Back_m),
                             cell_name(row.Point))
             rest == survey_from(rows, o1, j + 1)
         IN  [points |-> <<p>> \o rest.points, origin |-> rest.origin]

excel_survey(rows, origin) == survey_from(rows, origin, 1)

(***************************************************************************)
(* Workbooks: up to MaxSheets worksheets.  A tie-in sheet resolves T, A0   *)
(* and B0, or resolves T and A0 and leaves X and Y unresolved; survey      *)
(* sheets are set up at A0, B0 and C0.                                     *)
(***************************************************************************)
Worksheet(name, rows) == [name |-> name, rows |-> rows]

TieInWorksheets ==
    { Worksheet("Tie-In",
                << Row("T", "A0", 2, 0, 30, Cells(0, 0, 0)),
                   Row("B0", "A0", 5, 270, 0, None) >>),
      Worksheet("TIEIN",
                << Row("T", "A0", 2, 0, 30, Cells(0, 0, 0)),
                   Row("X", "Y", 5, 90, 0, None) >>) }

SurveyWorksheets ==
    { Worksheet("A Perimeter",
                << SurveyRow(Num(1), 60, Num(2), 0, Num(1), Num(2)),
                   SurveyRow(Blank, 120, Num(3), 30, Blank, Blank) >>),
      Worksheet("B Transect 1",
                << SurveyRow(Blank, 60, Blank, 0, Blank, Blank),
                   SurveyRow(Num(2), 90, Num(1), -30, Blank, Num(2)) >>),
      Worksheet("C transect", << SurveyRow(Blank, 0, Num(1), 0, Blank, Blank) >>) }

\* the worksheets of a workbook have different names
Workbooks ==
    UNION { { b \in [1..n -> TieInWorksheets \cup SurveyWorksheets] :
                \A j, k \in 1..n : j # k => b[j].name # b[k].name }
            : n \in 0..MaxSheets }

\* the declination argument of process: main's default and another value
Declinations == {0, 30}

Runs == {1, 2}

(***************************************************************************)
(* process, once for each of two conversions of the same workbook.  The    *)
(* outputs carry point records only: the fields declared on the            *)
(* shapefile writers are left out, the CSV header row is csv[1].           *)
(***************************************************************************)
\* excel_tiein(find_tiein_sheet(book)): no keyword argument is passed on
tiein_call(rows, kw) == excel_tiein(rows)

\* excel_survey with the declination added to every azimuth
survey_call_declined(rows, origin, kw) ==
    excel_survey([j \in 1..Len(rows) |->
                     [rows[j] EXCEPT !.Azm = (@ + kw.declination) % 360]], origin)

\* excel_survey(sheet, origin): no keyword argument is passed on
survey_call(rows, origin, kw) == excel_survey(rows, origin)

\* out_points.record(p.name, p.z); out_points.point(*p.coords)
point_record(p) == [name |-> p.name, elev |-> p.z, coords |-> <<p.x, p.y, p.z>>]

\* out_csv.writerow(p.coords)
csv_row(p) == [kind |-> "point", cells |-> <<p.x, p.y, p.z>>]

\* out_csv.writerow(['X', 'Y', 'Z'])
csv_header == [kind |-> "header", cells |-> <<"X", "Y", "Z">>]

\* out_perimeter.record(sheet.name); out_perimeter.poly([[p.coords ...]])
perimeter_record(name, points) ==
    [name |-> name, poly |-> [k \in 1..Len(points) |->
                                 <<points[k].x, points[k].y, points[k].z>>]]

Raise(r, what) == proc' = [proc EXCEPT ![r].pc = "raise", ![r].exc = what]

\* the statements of process up to the CSV header
proc_open(r) ==
    /\ proc[r].pc = "start"
    /\ proc' = [proc EXCEPT ![r].pc = "find", ![r].csv = <<csv_header>>]
    /\ UNCHANGED <<book, kwargs>>
    /\ UNCHANGED <<tiein_vars, geom_vars, survey_vars, filter_vars>>

\* find_tiein_sheet(book)
proc_find_tiein(r) ==
    /\ proc[r].pc = "find"
    /\ IF find_tiein_sheet(book) = 0
       THEN Raise(r, [Exception |-> "No tie-in survey sheet found!"])
       ELSE proc' = [proc EXCEPT ![r].pc = "tiein"]
    /\ UNCHANGED <<book, kwargs>>
    /\ UNCHANGED <<tiein_vars, geom_vars, survey_vars, filter_vars>>

\* proc_tiein going on with the table of a failed resolution
proc_tiein_partial(r) ==
    /\ proc[r].pc = "tiein"
    /\ LET res == tiein_call(book[find_tiein_sheet(book)].rows, kwargs[r])
       IN  proc' = [proc EXCEPT ![r].pc = "sheets", ![r].k = 1,
                                ![r].tiein_calls = @ + 1,
                                ![r].resolved = ~res.raised,
                                ![r].fixed_stations = res.stations]
    /\ UNCHANGED <<book, kwargs>>
    /\ UNCHANGED <<tiein_vars, geom_vars, survey_vars, filter_vars>>

\* fixed_stations = excel_tiein(...)
proc_tiein(r) ==
    /\ proc[r].pc = "tiein"
    /\ LET res == tiein_call(book[find_tiein_sheet(book)].rows, kwargs[r])
       IN  IF res.raised
           THEN proc' = [proc EXCEPT ![r].pc = "raise", ![r].exc = res.exc,
                                     ![r].tiein_calls = @ + 1]
           ELSE proc' = [proc EXCEPT ![r].pc = "sheets", ![r].k = 1,
                                     ![r].tiein_calls = @ + 1,
                                     ![r].resolved = TRUE,
                                     ![r].fixed_stations = res.stations]
    /\ UNCHANGED <<book, kwargs>>
    /\ UNCHANGED <<tiein_vars, geom_vars, survey_vars, filter_vars>>

\* proc_sheet passing over a sheet whose tripod station is not in the table
proc_sheet_skip_missing(r) ==
    /\ proc[r].pc = "sheets"
    /\ proc[r].k <= Len(find_survey_sheets(book))
    /\ LET sh == find_survey_sheets(book)[proc[r].k]
           station == tripod_station_name(sh)
           fixed == proc[r].fixed_stations
       IN  IF station \notin DOMAIN fixed
           THEN proc' = [proc EXCEPT ![r].k = @ + 1]
           ELSE IF ~truthy(fixed[station])
           THEN Raise(r, [AttributeError |-> "shot"])
           ELSE LET res == survey_call(sh.rows, fixed[station], kwargs[r])
                    recs == [k \in 1..Len(res.points) |-> point_record(res.points[k])]
                    rows == [k \in 1..Len(res.points) |-> csv_row(res.points[k])]
                IN  proc' = [proc EXCEPT
                        ![r].k = @ + 1,
                        ![r].fixed_stations = dict_set(fixed, station, res.origin),
                        ![r].projected = Append(@, sh.name),
                        ![r].points = @ \o recs,
                        ![r].csv = @ \o rows,
                        ![r].perimeter =
                            IF is_perimeter_survey(sh)
                            THEN Append(@, perimeter_record(sh.name, res.points))
                            ELSE @]
    /\ UNCHANGED <<book, kwargs>>
    /\ UNCHANGED <<tiein_vars, geom_vars, survey_vars, filter_vars>>

\* one iteration of the loop over find_survey_sheets(book)
proc_sheet(r) ==
    /\ proc[r].pc = "sheets"
    /\ proc[r].k <= Len(find_survey_sheets(book))
    /\ LET sh == find_survey_sheets(book)[proc[r].k]
           station == tripod_station_name(sh)
           fixed == proc[r].fixed_stations
       IN  IF station \notin DOMAIN fixed
           THEN Raise(r, [KeyError |-> station])
           ELSE IF ~truthy(fixed[station])
           THEN Raise(r, [AttributeError |-> "shot"])
           ELSE LET res == survey_call(sh.rows, fixed[station], kwargs[r])
                    recs == [k \in 1..Len(res.points) |-> point_record(res.points[k])]
                    rows == [k \in 1..Len(res.points) |-> csv_row(res.points[k])]
                IN  proc' = [proc EXCEPT
                        ![r].k = @ + 1,
                        ![r].fixed_stations = dict_set(fixed, station, res.origin),
                        ![r].projected = Append(@, sh.name),
                        ![r].points = @ \o recs,
                        ![r].csv = @ \o rows,
                        ![r].perimeter =
                            IF is_perimeter_survey(sh)
                            THEN Append(@, perimeter_record(sh.name, res.points))
                            ELSE @]
    /\ UNCHANGED <<book, kwargs>>
    /\ UNCHANGED <<tiein_vars, geom_vars, survey_vars, filter_vars>>

\* out_perimeter.save, out_points.save and the gridding that follows
proc_save(r) ==
    /\ proc[r].pc = "sheets"
    /\ proc[r].k > Len(find_survey_sheets(book))
    /\ proc' = [proc EXCEPT ![r].pc = "done", ![r].saved = TRUE]
    /\ UNCHANGED <<book, kwargs>>
    /\ UNCHANGED <<tiein_vars, geom_vars, survey_vars, filter_vars>>

ProcStart ==
    [pc |-> "start", k |-> 0, tiein_calls |-> 0, resolved |-> FALSE,
     fixed_stations |-> EmptyDict, projected |-> <<>>, points |-> <<>>,
     csv |-> <<>>, perimeter |-> <<>>, saved |-> FALSE, exc |-> None]

ProcInit ==
    /\ TieInIdle
    /\ GeomIdle
    /\ SurveyIdle
    /\ FilterIdle
    /\ book \in Workbooks
    /\ kwargs \in [Runs -> [declination : Declinations]]
    /\ proc = [r \in Runs |-> ProcStart]

ProcNext ==
    \E r \in Runs :
        \/ proc_open(r)
        \/ proc_find_tiein(r)
        \/ proc_tiein(r)
        \/ proc_sheet(r)
        \/ proc_save(r)

ProcSpec == ProcInit /\ [][ProcNext]_vars

(***************************************************************************)
(* ice_shp_filter.  An item of reader.shapeRecords() has a shape, whose    *)
(* points holds the one point of a station, and a record, whose second     *)
(* field (record[1]) is the station name.  The writer collects shapes and  *)
(* records side by side.                                                   *)
(***************************************************************************)
ShapeRecord(shape, record) == [shape |-> shape, record |-> record]

\* station names as Compass exports them, with and without the marker
StationNames == {"S_A01", "S_bB02", "A01", "dA02", "SA1", "s_A01", "AS_1"}

\* the item at position j of the input: its own point, its own record id
ShapeRecords(j) ==
    { ShapeRecord([points |-> << <<100 * j, 200 * j, j>> >>], <<j, name>>) :
        name \in StationNames }

Shapefiles ==
    UNION { { f \in [1..n -> UNION { ShapeRecords(j) : j \in 1..n }] :
                \A j \in 1..n : f[j] \in ShapeRecords(j) }
            : n \in 0..MaxItems }

\* the test with the marker's first letter only
include_record_any_S(record) == startswith(record[2], "S")

\* record[1].startswith('S_')
include_record(record) == startswith(record[2], "S_")

\* the statements before the loop: reader, writer, fields
flt_load ==
    /\ flt.pc = "load"
    /\ flt' = [flt EXCEPT !.pc = "loop", !.i = 0]
    /\ UNCHANGED shp
    /\ UNCHANGED <<tiein_vars, geom_vars, survey_vars, proc_vars>>

\* one iteration of the loop over enumerate(reader.shapeRecords())
flt_item ==
    /\ flt.pc = "loop"
    /\ flt.i < Len(shp)
    /\ LET item == shp[flt.i + 1]
       IN  IF include_record(item.record)
           THEN flt' = [flt EXCEPT !.i = @ + 1,
                                   !.shapes = Append(@, item.shape.points[1]),
                                   !.records = Append(@, item.record)]
           ELSE flt' = [flt EXCEPT !.i = @ + 1]
    /\ UNCHANGED shp
    /\ UNCHANGED <<tiein_vars, geom_vars, survey_vars, proc_vars>>

\* writer.save(outfname)
flt_save ==
    /\ flt.pc = "loop"
    /\ flt.i >= Len(shp)
    /\ flt' = [flt EXCEPT !.pc = "saved"]
    /\ UNCHANGED shp
    /\ UNCHANGED <<tiein_vars, geom_vars, survey_vars, proc_vars>>

FilterInit ==
    /\ TieInIdle
    /\ GeomIdle
    /\ SurveyIdle
    /\ ProcIdle
    /\ shp \in Shapefiles
    /\ flt = [pc |-> "load", i |-> 0, shapes |-> <<>>, records |-> <<>>]

FilterNext ==
    \/ flt_load
    \/ flt_item
    \/ flt_save

FilterSpec == FilterInit /\ [][FilterNext]_vars

(***************************************************************************)
(* Notions the properties are stated with.                                 *)
(***************************************************************************)
\* the names that appear as From or To in the first n rows
NamesUpTo(sh, n) == { sh[j].From : j \in 1..n } \cup { sh[j].To : j \in 1..n }

Referenced(sh) == NamesUpTo(sh, Len(sh))

\* the stations some row attaches a fixed coordinate to
Anchors(sh) == { sh[j].To : j \in { k \in 1..Len(sh) : sh[k].Fixed # None } }

\* the coordinate a row attaches to its To station
FixedPoint(row) ==
    Point(row.Fixed.UTM_East, row.Fixed.UTM_North, row.Fixed.Alt_m, NoName)

\* the stations joined to an anchor by tie-in entries, whatever their order
RECURSIVE Grow(_, _, _)
Grow(R, sh, k) ==
    IF k = 0 THEN R
    ELSE Grow(R \cup { sh[j].From : j \in { m \in 1..Len(sh) : sh[m].To \in R } }
                \cup { sh[j].To : j \in { m \in 1..Len(sh) : sh[m].From \in R } },
              sh, k - 1)

Reachable(sh) == Grow(Anchors(sh), sh, Len(sh))

Connected(sh) == Referenced(sh) \subseteq Reachable(sh)

\* the stations reached after one more in-order sweep over rows j, j+1, ...
RECURSIVE SweepFrom(_, _, _)
SweepFrom(R, sh, j) ==
    IF j > Len(sh) THEN R
    ELSE SweepFrom(IF (sh[j].From \in R) # (sh[j].To \in R)
                   THEN R \cup {sh[j].From, sh[j].To} ELSE R,
                   sh, j + 1)

RECURSIVE AfterSweeps(_, _)
AfterSweeps(sh, k) ==
    IF k = 0 THEN Anchors(sh) ELSE SweepFrom(AfterSweeps(sh, k - 1), sh, 1)

\* the number of in-order sweeps needed to reach every station (connected lists)
SweepsNeeded(sh) ==
    CHOOSE k \in 0..Len(sh) :
        /\ Referenced(sh) \subseteq AfterSweeps(sh, k)
        /\ \A m \in 0..(k - 1) : ~(Referenced(sh) \subseteq AfterSweeps(sh, m))

\* the number of sweeps begun so far
SweepsStarted == passes + (IF pc = "for" THEN 1 ELSE 0)

\* initialisation has read row j
RowRead(j) == pc # "init" \/ j < i

(***************************************************************************)
(* C1.  On a tie-in list whose every station is connected to an anchor,    *)
(* the resolver returns only if at most max_passes in-order sweeps are     *)
(* needed to reach every station, and raises only if more are needed.      *)
(***************************************************************************)
C1_PassCapDecides ==
    (pc \in {"return", "raise"} /\ Connected(sheet)) =>
        /\ pc = "return" => SweepsNeeded(sheet) <= max_passes
        /\ pc = "raise" => SweepsNeeded(sheet) > max_passes

C1_Witness ==
    /\ pc = "return"
    /\ Connected(sheet)
    /\ SweepsNeeded(sheet) = max_passes
    /\ passes = max_passes

(***************************************************************************)
(* C2.  When the resolver returns, every name that appears as From or To   *)
(* is a key of the returned table and maps to a coordinate, not to None.   *)
(***************************************************************************)
C2_ReturnedTableResolved ==
    pc = "return" =>
        \A s \in Referenced(sheet) : s \in DOMAIN stations /\ stations[s] # None

C2_Witness ==
    /\ pc = "return"
    /\ passes >= 2
    /\ Cardinality(Referenced(sheet)) >= 3

(***************************************************************************)
(* C3.  When the resolver raises, the table it reports holds at least one  *)
(* unresolved station: a run whose last sweep resolved every station does  *)
(* not fail.                                                               *)
(***************************************************************************)
C3_RaiseReportsUnresolved ==
    pc = "raise" => \E s \in DOMAIN exc.stations : exc.stations[s] = None

(***************************************************************************)
(* C4.  A station that is not connected to any anchor makes the resolver   *)
(* raise instead of return, and the table carried by the error lists that  *)
(* station as unresolved.                                                  *)
(***************************************************************************)
C4_UnreachableStationRaises ==
    \A s \in Referenced(sheet) \ Reachable(sheet) :
        /\ pc # "return"
        /\ pc = "raise" => (s \in DOMAIN exc.stations /\ exc.stations[s] = None)

C4_Witness ==
    /\ pc = "raise"
    /\ Referenced(sheet) \ Reachable(sheet) # {}
    /\ Reachable(sheet) # {}
    /\ \E s \in DOMAIN exc.stations : exc.stations[s] # None

(***************************************************************************)
(* C5.  A resolution run performs at most max_passes sweeps over the       *)
(* tie-in list: no sweep is begun after max_passes sweeps are complete.    *)
(***************************************************************************)
C5_AtMostMaxPassesSweeps == SweepsStarted <= max_passes

(***************************************************************************)
(* C6.  During the passes, a station that holds a coordinate keeps exactly *)
(* that coordinate in every later step, also when the entry processed      *)
(* would compute another position for it.                                  *)
(***************************************************************************)
KeepsResolved ==
    pc \in {"while", "for"} =>
        \A s \in DOMAIN stations :
            stations[s] # None =>
                (s \in DOMAIN stations' /\ stations'[s] = stations[s])

C6_ResolvedIsImmutable == [][KeepsResolved]_vars

\* the entry about to be processed has both ends resolved and its shot from
\* From does not arrive at To's coordinate
C6_Witness ==
    /\ pc = "for"
    /\ i <= Len(sheet)
    /\ stations[sheet[i].From] # None
    /\ stations[sheet[i].To] # None
    /\ sheet[i].From # sheet[i].To
    /\ plain_shot(stations[sheet[i].From], sheet[i].Dist_m, sheet[i].Azm, sheet[i].Inc)
         # stations[sheet[i].To]

(***************************************************************************)
(* C7 as stated.  From the moment initialisation has read a row that       *)
(* attaches a fixed coordinate to its To station, that station holds that  *)
(* coordinate at every point of the run.                                   *)
(***************************************************************************)
C7_AnchorHoldsItsCoordinate ==
    \A j \in 1..Len(sheet) :
        (sheet[j].Fixed # None /\ RowRead(j)) =>
            dict_get(stations, sheet[j].To) = FixedPoint(sheet[j])

(***************************************************************************)
(* C7 as amended.  From the moment initialisation has read a row that      *)
(* attaches a fixed coordinate to its To station, that station holds the   *)
(* coordinate attached by the last such row read, at every point of the    *)
(* run, whatever other rows name the station before or after.              *)
(***************************************************************************)
C7_AnchorHoldsLastFixedCoordinate ==
    \A j \in 1..Len(sheet) :
        ( /\ sheet[j].Fixed # None
          /\ RowRead(j)
          /\ \A k \in (j + 1)..Len(sheet) :
                ~(RowRead(k) /\ sheet[k].Fixed # None /\ sheet[k].To = sheet[j].To) )
        => dict_get(stations, sheet[j].To) = FixedPoint(sheet[j])

\* after a pass, an anchor that a later plain row names as its To and that
\* an earlier or later row names as well
C7_Witness ==
    /\ pc = "while"
    /\ passes >= 1
    /\ \E j \in 1..Len(sheet) :
          /\ sheet[j].Fixed # None
          /\ stations[sheet[j].To] = FixedPoint(sheet[j])
          /\ \E k \in (j + 1)..Len(sheet) :
                sheet[k].Fixed = None /\ sheet[k].To = sheet[j].To

(***************************************************************************)
(* C8.  The key set of the station table is the set of names that appear   *)
(* as From or To in the rows initialisation has read: all of the tie-in    *)
(* list from the end of initialisation on, through every pass.             *)
(***************************************************************************)
C8_KeysAreReferencedNames ==
    DOMAIN stations =
        NamesUpTo(sheet, IF pc = "init" THEN i - 1 ELSE Len(sheet))

C8_Witness ==
    /\ pc = "for"
    /\ passes >= 1
    /\ i > Len(sheet)
    /\ Cardinality(DOMAIN stations) >= 3
    /\ \E s \in DOMAIN stations : stations[s] # None /\ s \notin Anchors(sheet)

(***************************************************************************)
(* C9.  Processing one entry in a pass: if only From is resolved, To       *)
(* becomes the shot from From; if only To is resolved, From becomes the    *)
(* shot from To with azimuth (azm + 180) mod 360 and inclination -inc; if  *)
(* both or neither are resolved the table is unchanged; no other station   *)
(* is modified and no key is added or removed.                             *)
(***************************************************************************)
EntryEffect ==
    (pc = "for" /\ i <= Len(sheet)) =>
        LET r == sheet[i]
            f == stations[r.From]
            t == stations[r.To]
        IN  /\ DOMAIN stations' = DOMAIN stations
            /\ (f # None /\ t = None) =>
                  /\ stations'[r.To] = plain_shot(f, r.Dist_m, r.Azm, r.Inc)
                  /\ \A s \in DOMAIN stations \ {r.To} : stations'[s] = stations[s]
            /\ (t # None /\ f = None) =>
                  /\ stations'[r.From] =
                        plain_shot(t, r.Dist_m, (r.Azm + 180) % 360, 0 - r.Inc)
                  /\ \A s \in DOMAIN stations \ {r.From} : stations'[s] = stations[s]
            /\ ((f # None /\ t # None) \/ (f = None /\ t = None)) =>
                  stations' = stations

C9_EntryEffect == [][EntryEffect]_vars

\* the entry just processed resolved its From from its To, on a sloping shot
C9_Witness ==
    /\ pc = "for"
    /\ i > 1
    /\ LET r == sheet[i - 1]
       IN  /\ r.Inc # 0
           /\ r.From \notin Anchors(sheet)
           /\ r.To \in Anchors(sheet)
           /\ stations[r.From] # None
           /\ stations[r.From] =
                 plain_shot(stations[r.To], r.Dist_m, (r.Azm + 180) % 360, 0 - r.Inc)
           /\ Cardinality({ j \in 1..Len(sheet) : r.From \in {sheet[j].From, sheet[j].To} }) = 1

(***************************************************************************)
(* C10.  Round trip of the reversed sight: the resolver's backward          *)
(* resolution of From, taken from the end of a shot from P, gives P.       *)
(***************************************************************************)
C10_RoundTrip ==
    g_pc = "back" =>
        /\ g_back = g_self
        /\ plain_shot(g_back, g_args[1], g_args[2], g_args[3]) = g_fwd

\* the specification's example: B0 = (5,0,0), entry A0 -> B0 with dist 5,
\* az 90, inc 0 resolves A0 to (0,0,0)
C10_Witness ==
    /\ g_pc = "back"
    /\ g_args = <<5, 90, 0>>
    /\ g_fwd = Point(5000000, 0, 0, NoName)
    /\ g_back = Point(0, 0, 0, NoName)

\* the stations known before entry j of a single in-order pass is processed:
\* the anchors and both ends of every earlier entry that had a known end
RECURSIVE KnownBefore(_, _)
KnownBefore(sh, j) ==
    IF j = 1 THEN Anchors(sh)
    ELSE LET K == KnownBefore(sh, j - 1)
         IN  IF sh[j - 1].From \in K \/ sh[j - 1].To \in K
             THEN K \cup {sh[j - 1].From, sh[j - 1].To}
             ELSE K

\* the entries are listed in dependency order starting at an anchor: every
\* entry has an end that is an anchor or was met by an earlier entry
InDependencyOrder(sh) ==
    /\ Len(sh) >= 1
    /\ \A j \in 1..Len(sh) :
           sh[j].From \in KnownBefore(sh, j) \/ sh[j].To \in KnownBefore(sh, j)

(***************************************************************************)
(* C22.  A coordinate resolved by an entry is visible to the entries after *)
(* it in the same pass: on a list in dependency order starting at an       *)
(* anchor, of any length, both ends of every entry the first pass has      *)
(* processed are resolved, the table is complete when passes is 1 and the  *)
(* resolver returns without a second pass; the chain A0 -> B0 -> C0 of two *)
(* 5 m shots at azimuth 90 from A0 = (0,0,0) returns within 2 passes with  *)
(* B0 = (5,0,0) and C0 = (10,0,0).                                         *)
(***************************************************************************)
C22_ChainResolvedInFirstPass ==
    /\ InDependencyOrder(sheet) =>
           /\ pc # "raise"
           /\ passes <= 1
           /\ pc = "for" /\ passes = 0 =>
                  \A j \in 1..(i - 1) :
                      stations[sheet[j].From] # None /\ stations[sheet[j].To] # None
           /\ passes = 1 => \A s \in DOMAIN stations : stations[s] # None
    /\ sheet = ExampleChain /\ pc = "return" =>
           /\ passes <= 2
           /\ stations[0] = Point(0, 0, 0, NoName)
           /\ stations[1] = Point(5000000, 0, 0, NoName)
           /\ stations[2] = Point(10000000, 0, 0, NoName)

\* the resolver has returned after one pass on a six-link chain listed from
\* its anchor on
C22_Witness ==
    /\ pc = "return"
    /\ passes = 1
    /\ Len(sheet) = 6
    /\ InDependencyOrder(sheet)
    /\ \A j \in 2..6 : sheet[j].Fixed = None /\ stations[sheet[j].To] # None

(***************************************************************************)
(* Notions of the properties of process.                                   *)
(***************************************************************************)
\* conversion r has projected a survey sheet or written a point record to
\* the point, perimeter or CSV output
Wrote(r) ==
    \/ proc[r].projected # <<>>
    \/ proc[r].points # <<>>
    \/ proc[r].perimeter # <<>>
    \/ \E k \in 1..Len(proc[r].csv) : proc[r].csv[k].kind = "point"

\* the workbook has a tie-in sheet and its resolution returns a table
Resolvable ==
    /\ \E k \in 1..Len(book) : lower(replace_hyphens(book[k].name)) = "tiein"
    /\ ~excel_tiein(book[find_tiein_sheet(book)].rows).raised

(***************************************************************************)
(* C11.  No survey point is produced unless tie-in resolution has          *)
(* completed successfully: a workbook without tie-in sheet makes process   *)
(* fail before excel_tiein is called, a failure of excel_tiein ends the    *)
(* conversion, and in both cases no survey sheet is projected, no point    *)
(* record is written to the point, perimeter or CSV output and nothing is  *)
(* saved.                                                                  *)
(***************************************************************************)
C11_NoPointWithoutResolution ==
    \A r \in Runs :
        /\ Wrote(r) => Resolvable /\ proc[r].tiein_calls = 1 /\ proc[r].resolved
        /\ find_tiein_sheet(book) = 0 =>
               /\ proc[r].pc \in {"start", "find", "raise"}
               /\ proc[r].tiein_calls = 0
        /\ ~Resolvable /\ proc[r].pc \notin {"start", "find", "tiein"} =>
               /\ proc[r].pc = "raise"
               /\ ~Wrote(r)
               /\ ~proc[r].saved

\* a conversion has ended on a failure of the resolver, a survey sheet
\* following the tie-in sheet in the workbook
C11_Witness ==
    /\ proc[1].pc = "raise"
    /\ proc[1].tiein_calls = 1
    /\ ~proc[1].resolved
    /\ Len(book) >= 2
    /\ find_survey_sheets(book) # <<>>
    /\ proc[1].csv = <<csv_header>>

(***************************************************************************)
(* Notions of the survey properties.                                       *)
(***************************************************************************)
\* the measurements a row records
HasDown(row) == row.Down_m # Blank /\ row.Down_m[1] # 0

HasBack(row) == row.Back_m # Blank /\ row.Back_m[1] # 0

\* the rows the code projects: those whose distance cell is true
Projected(rows) == { j \in 1..Len(rows) : rows[j].Dist_m # Blank /\ rows[j].Dist_m[1] # 0 }

\* primary, then down if measured, then back if measured
PartsOf(row) ==
    <<"main">> \o (IF HasDown(row) THEN <<"down">> ELSE <<>>)
               \o (IF HasBack(row) THEN <<"back">> ELSE <<>>)

\* <<row, part>> of everything due for rows 1..n, in row order
RECURSIVE PartsUpTo(_, _)
PartsUpTo(rows, n) ==
    IF n = 0 THEN <<>>
    ELSE PartsUpTo(rows, n - 1) \o
         (IF n \in Projected(rows)
          THEN [k \in 1..Len(PartsOf(rows[n])) |-> <<n, PartsOf(rows[n])[k]>>]
          ELSE <<>>)

\* the projected rows among 1..n, in row order
RECURSIVE ProjectedUpTo(_, _)
ProjectedUpTo(rows, n) ==
    IF n = 0 THEN <<>>
    ELSE ProjectedUpTo(rows, n - 1) \o (IF n \in Projected(rows) THEN <<n>> ELSE <<>>)

\* <<row, part>> of the shots ice2survey has added (rows counted from 1)
DatParts == [k \in 1..Len(dat.shots) |-> <<dat.shots[k].row + 1, dat.shots[k].part>>]

\* the rows of the points an iteration of excel_survey has yielded
RowsOf(g) == [k \in 1..Len(g.out) |-> g.out[k].row]

\* the points an iteration has yielded for row j
PointsFor(g, j) == { k \in 1..Len(g.out) : g.out[k].row = j }

\* ice2survey adds, row after row, the primary shot, then the down shot iff
\* a down measurement is present, then the back shot iff a back measurement
\* is present
DatInOrder == dat.pc \in {"loop", "return"} => DatParts = PartsUpTo(sv_rows, dat.i)

(***************************************************************************)
(* C12 as stated.  Each projector emits for each projected row between 1   *)
(* and 3 points: the primary point, then the down point iff a down         *)
(* measurement is present, then the back point iff a back measurement is   *)
(* present, rows in order and not interleaved.  excel_survey yields one    *)
(* point for a row whatever it records, so this fails on a row with a      *)
(* down or a back measurement.                                             *)
(***************************************************************************)
C12_OneToThreePointsPerShot ==
    /\ DatInOrder
    /\ gen1.pc = "done" =>
         \A j \in Projected(sv_rows) :
             Cardinality(PointsFor(gen1, j)) = Len(PartsOf(sv_rows[j]))

(***************************************************************************)
(* C12, amended.  ice2survey emits for each projected row, in row order    *)
(* and not interleaved, the primary shot, then the down shot iff a down    *)
(* measurement is present, then the back shot iff a back measurement is    *)
(* present; excel_survey yields exactly one point for each projected row,  *)
(* in row order.                                                           *)
(***************************************************************************)
C12_ShotsInOrderOnePointPerRow ==
    /\ DatInOrder
    /\ RowsOf(gen1) = ProjectedUpTo(sv_rows, gen1.i - 1)
    /\ gen2.pc # "new" => RowsOf(gen2) = ProjectedUpTo(sv_rows, gen2.i - 1)

\* both projectors have finished a sheet of two projected rows, the first
\* with a down and a back measurement, the second with neither
C12_Witness ==
    /\ dat.pc = "return"
    /\ gen1.pc = "done"
    /\ Projected(sv_rows) = {1, 2}
    /\ HasDown(sv_rows[1]) /\ HasBack(sv_rows[1])
    /\ ~HasDown(sv_rows[2]) /\ ~HasBack(sv_rows[2])
    /\ Len(dat.shots) = 4
    /\ Len(gen1.out) = 2

\* the name carries the surface marker
Surface(name) == Len(name) >= 2 /\ SubSeq(name, 1, 2) = "S_"

\* the worksheet row a shot of ice2survey was added for
RowOfShot(s) == sv_rows[s.row + 1]

(***************************************************************************)
(* C13.  Station naming in ice2survey, for every combination of down and   *)
(* back: the primary station carries the surface marker 'S_' iff the row   *)
(* has neither a down nor a back measurement, the down station carries it  *)
(* iff the row has no back measurement, the back station always carries    *)
(* it.                                                                     *)
(***************************************************************************)
C13_SurfaceMarker ==
    \A k \in 1..Len(dat.shots) :
        LET s == dat.shots[k]
            r == RowOfShot(s)
        IN  /\ s.part = "main" => (Surface(s.TO) <=> ~HasDown(r) /\ ~HasBack(r))
            /\ s.part = "down" => (Surface(s.TO) <=> ~HasBack(r))
            /\ s.part = "back" => Surface(s.TO)

\* a finished conversion of a row with down and back and a row with down
\* only
C13_Witness ==
    /\ dat.pc = "return"
    /\ Len(sv_rows) = 2
    /\ Projected(sv_rows) = {1, 2}
    /\ HasDown(sv_rows[1]) /\ HasBack(sv_rows[1])
    /\ HasDown(sv_rows[2]) /\ ~HasBack(sv_rows[2])
    /\ Len(dat.shots) = 5

\* the primary point of a row: the plain shot from the origin
PrimaryOf(row, origin) == plain_shot(origin, row.Dist_m[1], row.Azm, row.Inc)

\* p lowered by down metres
Lowered(p, down) == [p EXCEPT !.z = @ - down * 1000000]

\* p moved back metres level along the azimuth
MovedBack(p, back, azm) ==
    [p EXCEPT !.x = @ + back * 1000 * SinT(azm), !.y = @ + back * 1000 * CosT(azm)]

SamePlace(p, q) == p.x = q.x /\ p.y = q.y /\ p.z = q.z

(***************************************************************************)
(* C14.  The back point is taken from the down point when the row has a    *)
(* down measurement and from the primary point otherwise, never from the   *)
(* primary point when both are present; the down point is taken from the   *)
(* primary point.  In ice2survey this is the FROM station of the back and  *)
(* down shots, in Point.shot the place of the point returned.              *)
(***************************************************************************)
C14_BackChainsAfterDown ==
    /\ \A k \in 1..Len(dat.shots) :
           LET s == dat.shots[k]
               r == RowOfShot(s)
           IN  /\ s.part = "down" =>
                     /\ dat.shots[k - 1].part = "main"
                     /\ dat.shots[k - 1].row = s.row
                     /\ s.FROM = dat.shots[k - 1].TO
               /\ s.part = "back" =>
                     /\ dat.shots[k - 1].row = s.row
                     /\ dat.shots[k - 1].part = IF HasDown(r) THEN "down" ELSE "main"
                     /\ s.FROM = dat.shots[k - 1].TO
                     /\ HasDown(r) => s.FROM # dat.shots[k - 2].TO
    /\ \A k \in 1..Len(gen1.out) :
           LET r == sv_rows[gen1.out[k].row]
               p == gen1.out[k].point
               P == PrimaryOf(r, sv_cfg.origin)
               D == Lowered(P, r.Down_m[1])
           IN  /\ HasDown(r) /\ HasBack(r) =>
                     /\ SamePlace(p, MovedBack(D, r.Back_m[1], r.Azm))
                     /\ ~SamePlace(p, MovedBack(P, r.Back_m[1], r.Azm))
               /\ ~HasDown(r) /\ HasBack(r) =>
                     SamePlace(p, MovedBack(P, r.Back_m[1], r.Azm))
               /\ HasDown(r) /\ ~HasBack(r) => SamePlace(p, D)

\* both projectors have handled a row with down and back and a row with
\* back only
C14_Witness ==
    /\ dat.pc = "return"
    /\ Len(sv_rows) = 2
    /\ Projected(sv_rows) = {1, 2}
    /\ HasDown(sv_rows[1]) /\ HasBack(sv_rows[1])
    /\ ~HasDown(sv_rows[2]) /\ HasBack(sv_rows[2])
    /\ Len(dat.shots) = 5
    /\ Len(gen1.out) = 2

(***************************************************************************)
(* C15.  The projectors emit points for exactly the rows that have a       *)
(* distance recorded, 0 included: a finished ice2survey and a finished     *)
(* iteration of excel_survey have emitted for every row whose distance     *)
(* cell is filled and for no other.                                        *)
(***************************************************************************)
C15_RowsWithDistanceProjected ==
    LET Recorded == { j \in 1..Len(sv_rows) : sv_rows[j].Dist_m # Blank }
    IN  /\ dat.pc = "return" => { dat.shots[k].row + 1 : k \in 1..Len(dat.shots) } = Recorded
        /\ gen1.pc = "done" => { gen1.out[k].row : k \in 1..Len(gen1.out) } = Recorded

(***************************************************************************)
(* C16.  excel_survey is restartable and deterministic: two iterations     *)
(* over the same sheet and origin yield the same points in the same order, *)
(* whether the first was run to its end or left part-way; the second       *)
(* iteration starts at the first row wherever the first one stands.        *)
(***************************************************************************)
C16_Restartable ==
    /\ \A k \in 1..Len(gen1.out) : k <= Len(gen2.out) => gen1.out[k] = gen2.out[k]
    /\ gen2.pc = "done" => Len(gen2.out) >= Len(gen1.out)
    /\ gen1.pc = "done" /\ gen2.pc = "done" => gen1.out = gen2.out

\* the first iteration was left after its first point, the second has run
\* to its end and yielded two
C16_Witness ==
    /\ gen1.pc = "run"
    /\ Len(gen1.out) = 1
    /\ gen2.pc = "done"
    /\ Len(gen2.out) = 2

\* a step of the loop over the survey sheets leaves the station table as it
\* was
StationTableKept ==
    \A r \in Runs :
        proc[r].pc = "sheets" => proc'[r].fixed_stations = proc[r].fixed_stations

(***************************************************************************)
(* C17.  Only the resolver changes the station table: projecting the       *)
(* survey sheets of a workbook, however many and in whatever order,        *)
(* leaves every entry of the table excel_tiein returned as it was,         *)
(* coordinates and name, the origins of the surveys included.              *)
(***************************************************************************)
C17_ProjectionKeepsTable == [][StationTableKept]_vars

\* a conversion has projected two survey sheets and written points of both,
\* and its table is still the one the resolver returned
C17_Witness ==
    /\ proc[1].pc = "done"
    /\ Len(proc[1].projected) = 2
    /\ Len(proc[1].points) >= 3
    /\ proc[1].fixed_stations = excel_tiein(book[find_tiein_sheet(book)].rows).stations

(***************************************************************************)
(* C18.  The declination argument has no effect: two conversions of the    *)
(* same workbook that differ only in declination have, at the same         *)
(* position and at their ends, the same station table, the same point,     *)
(* CSV and perimeter records and the same outcome.                         *)
(***************************************************************************)
C18_DeclinationIsNoOp ==
    /\ proc[1].pc = proc[2].pc /\ proc[1].k = proc[2].k => proc[1] = proc[2]
    /\ proc[1].pc \in {"done", "raise"} /\ proc[2].pc \in {"done", "raise"} =>
           proc[1] = proc[2]

\* two finished conversions with different declinations that wrote points
C18_Witness ==
    /\ kwargs[1].declination # kwargs[2].declination
    /\ proc[1].pc = "done"
    /\ proc[2].pc = "done"
    /\ Len(proc[1].points) >= 3
    /\ proc[2].points = proc[1].points

\* the tripod station of the survey worksheets in use: the first word of
\* the sheet's name followed by '0'
TripodOf(sh) ==
    CASE sh.name = "A Perimeter" -> "A0"
      [] sh.name = "B Transect 1" -> "B0"
      [] sh.name = "C transect" -> "C0"

\* the table the resolver returns for the workbook's tie-in sheet
ResolvedTable == excel_tiein(book[find_tiein_sheet(book)].rows).stations

\* the point records due for the first n survey sheets, each sheet projected
\* from its tripod station's entry of the table
RECURSIVE RecordsDue(_, _, _)
RecordsDue(S, T, n) ==
    IF n = 0 THEN <<>>
    ELSE LET pts == excel_survey(S[n].rows, T[TripodOf(S[n])]).points
         IN  RecordsDue(S, T, n - 1) \o
             [k \in 1..Len(pts) |->
                 [name |-> pts[k].name, elev |-> pts[k].z,
                  coords |-> <<pts[k].x, pts[k].y, pts[k].z>>]]

(***************************************************************************)
(* C25.  process projects every survey sheet, in workbook order, from the  *)
(* resolved coordinate of its tripod station.  At the first survey sheet   *)
(* whose tripod station is no key of the resolved table the conversion     *)
(* ends with a KeyError for that name: the sheet is neither skipped nor    *)
(* projected from another origin, no later sheet is projected, nothing is  *)
(* saved, and the records written for the earlier sheets stay as written.  *)
(***************************************************************************)
C25_ProjectedFromTripodStation ==
    \A r \in Runs :
        proc[r].resolved =>
            LET S == find_survey_sheets(book)
                T == ResolvedTable
                n == Len(proc[r].projected)
            IN  /\ n <= Len(S)
                /\ proc[r].projected = [j \in 1..n |-> S[j].name]
                /\ \A j \in 1..n : TripodOf(S[j]) \in DOMAIN T
                /\ proc[r].points = RecordsDue(S, T, n)
                /\ proc[r].pc = "sheets" => n = proc[r].k - 1
                /\ proc[r].pc = "done" => n = Len(S)
                /\ proc[r].pc = "raise" =>
                       /\ n < Len(S)
                       /\ TripodOf(S[n + 1]) \notin DOMAIN T
                       /\ proc[r].exc = [KeyError |-> TripodOf(S[n + 1])]
                       /\ ~proc[r].saved

\* a conversion has ended at a sheet set up at C0, which the tie-in sheet
\* does not name, after writing the points of an earlier sheet
C25_Witness ==
    /\ proc[1].resolved
    /\ proc[1].pc = "raise"
    /\ proc[1].exc = [KeyError |-> "C0"]
    /\ Len(proc[1].projected) = 1
    /\ proc[1].points # <<>>
    /\ Len(find_survey_sheets(book)) = 2

(***************************************************************************)
(* C19.  Compass convention on the cardinal cases: from (0,0,0), 10 m at   *)
(* azimuth 90, inclination 0 ends at (10,0,0); 10 m at azimuth 0,          *)
(* inclination 0 ends at (0,10,0); 5 m at inclination 90 ends at (0,0,5)   *)
(* for every azimuth; and from any point a shot of length d at             *)
(* inclination -90 (a down shot) lowers z by d and keeps x and y, for      *)
(* every azimuth.                                                          *)
(***************************************************************************)
C19_CardinalShots ==
    g_pc # "start" =>
        LET d == g_args[1]
            azm == g_args[2]
            inc == g_args[3]
            O == Point(0, 0, 0, NoName)
        IN  /\ (g_self = O /\ d = 10 /\ azm = 90 /\ inc = 0) =>
                  g_fwd = Point(10000000, 0, 0, NoName)
            /\ (g_self = O /\ d = 10 /\ azm = 0 /\ inc = 0) =>
                  g_fwd = Point(0, 10000000, 0, NoName)
            /\ (g_self = O /\ d = 5 /\ inc = 90) =>
                  g_fwd = Point(0, 0, 5000000, NoName)
            /\ inc = -90 =>
                  g_fwd = Point(g_self.x, g_self.y, g_self.z - d * 1000000, NoName)

C19_Witness ==
    /\ g_pc = "shot"
    /\ g_self = Point(0, 0, 0, NoName)
    /\ g_args = <<10, 90, 0>>
    /\ g_fwd = Point(10000000, 0, 0, NoName)

(***************************************************************************)
(* C20.  The resolver terminates: every run of excel_tiein reaches its     *)
(* return or its raise, also on disconnected lists, lists without anchor   *)
(* and entries whose two ends are the same station.                        *)
(***************************************************************************)
C20_ResolverTerminates == <>(pc \in {"return", "raise"})

\* a run that ended on a list with no anchor and an entry from a station to
\* itself
C20_Witness ==
    /\ pc = "raise"
    /\ Anchors(sheet) = {}
    /\ \E j \in 1..Len(sheet) : sheet[j].From = sheet[j].To

\* the positions among the first n input items whose station name starts
\* with the surface marker, in input order
RECURSIVE SurfaceUpTo(_, _)
SurfaceUpTo(items, n) ==
    IF n = 0 THEN <<>>
    ELSE SurfaceUpTo(items, n - 1) \o
         (IF Surface(items[n].record[2]) THEN <<n>> ELSE <<>>)

(***************************************************************************)
(* C21.  ice_shp_filter writes exactly the input records whose station     *)
(* name starts with 'S_', each once, each with its own shape, in input     *)
(* order; every record whose name lacks that prefix is left out.           *)
(***************************************************************************)
C21_FilterKeepsSurfacePoints ==
    flt.pc \in {"loop", "saved"} =>
        LET kept == SurfaceUpTo(shp, flt.i)
        IN  /\ flt.pc = "saved" => flt.i = Len(shp)
            /\ flt.records = [k \in 1..Len(kept) |-> shp[kept[k]].record]
            /\ flt.shapes = [k \in 1..Len(kept) |-> shp[kept[k]].shape.points[1]]

\* a saved output of two records, the first and the third of an input whose
\* second record has a name that begins with S but lacks the marker
C21_Witness ==
    /\ flt.pc = "saved"
    /\ Len(shp) = 3
    /\ shp[2].record[2] = "SA1"
    /\ Len(flt.records) = 2
    /\ flt.records[1] = shp[1].record
    /\ flt.records[2] = shp[3].record


(***************************************************************************)
(* C23.  Station names are unique within one converted survey: no two      *)
(* shots that ice2survey adds (primary, down or back, over all rows) have  *)
(* the same TO station, whether the point numbers are given in the Point   *)
(* column or defaulted from the row position.                              *)
(***************************************************************************)
C23_StationNamesUnique ==
    dat.pc \in {"loop", "return"} =>
        \A k1, k2 \in 1..Len(dat.shots) :
            k1 # k2 => dat.shots[k1].TO # dat.shots[k2].TO

\* the shots ice2survey added for worksheet row j
ShotsOfRow(j) == { k \in 1..Len(dat.shots) : dat.shots[k].row + 1 = j }

(***************************************************************************)
(* C24.  For every projected row, whatever down and back measurements it   *)
(* carries, exactly one of the stations ice2survey emits for it passes     *)
(* the test of ice_shp_filter (its name starts with 'S_'), and it is the   *)
(* last one emitted for the row, the end of the chain primary, down, back; *)
(* so the filter keeps exactly one point for each projected row.           *)
(***************************************************************************)
C24_OneSurfacePointPerShot ==
    dat.pc \in {"loop", "return"} =>
        /\ \A j \in Projected(sv_rows) :
               j <= dat.i =>
                   /\ ShotsOfRow(j) # {}
                   /\ \A k \in ShotsOfRow(j) :
                          include_record(<<k, dat.shots[k].TO>>)
                              <=> (\A m \in ShotsOfRow(j) : m <= k)
        /\ Cardinality({ k \in 1..Len(dat.shots) :
                             include_record(<<k, dat.shots[k].TO>>) })
               = Cardinality({ j \in Projected(sv_rows) : j <= dat.i })

\* a finished conversion of a row with a down measurement only and a row
\* with a back measurement only
C24_Witness ==
    /\ dat.pc = "return"
    /\ Len(sv_rows) = 2
    /\ Projected(sv_rows) = {1, 2}
    /\ HasDown(sv_rows[1]) /\ ~HasBack(sv_rows[1])
    /\ ~HasDown(sv_rows[2]) /\ HasBack(sv_rows[2])
    /\ Len(dat.shots) = 4

=============================================================================
